---- MODULE Spec2Model ----
(***************************************************************************)
(* Model of src/minesweeper.py: the Minesweeper board, the Sentence class  *)
(* and the MinesweeperAI knowledge base (add_knowledge, mark_mine,         *)
(* mark_safe, make_safe_move, make_random_move).                           *)
(*                                                                         *)
(* A cell is a pair <<i, j>>.  A sentence is a record [cells, count].      *)
(* The knowledge base is a Python list, modelled as a sequence.            *)
(***************************************************************************)
EXTENDS Integers, Sequences, FiniteSets, TLC

\* ------------------------------------------------------------------------
\* Bounds of the model
\* ------------------------------------------------------------------------
\* Rows and columns of the part of the board the game is played in: the
\* mines lie there and the revealed cells are taken from there.
Height == 3
Width == 3
\* Largest number of mines given to Minesweeper(...)
MaxMines == 1
\* Largest number of add_knowledge calls in a truthful game
MaxObs == 4
\* Largest number of calls in an arbitrary call sequence
MaxCalls == 3
\* Arbitrary calls take their cells from the first ArgSpan cells of row 0
ArgSpan == 2
\* Arbitrary add_knowledge calls take their count from 0..MaxCount
MaxCount == 1

\* ------------------------------------------------------------------------
\* Program constants
\* ------------------------------------------------------------------------
\* The literal 8 of add_knowledge (line 196) and make_random_move (249-250)
BoardLimit == 8

None == <<>>

VARIABLES
    height,      \* the height given to Minesweeper(...) and MinesweeperAI(...)
    width,       \* the width given to Minesweeper(...) and MinesweeperAI(...)
    board,       \* Minesweeper.mines: the cells that hold a mine
    moves_made,  \* MinesweeperAI.moves_made
    mines,       \* MinesweeperAI.mines
    safes,       \* MinesweeperAI.safes
    knowledge,   \* MinesweeperAI.knowledge, a list of sentences
    calls,       \* number of calls made so far
    last         \* record of the last call: its arguments, what it
                 \* returned and what add_knowledge went through

vars == <<height, width, board, moves_made, mines, safes, knowledge, calls, last>>

\* ------------------------------------------------------------------------
\* Minesweeper (the board)
\* ------------------------------------------------------------------------
BoardCells(h, w) == (0 .. h - 1) \X (0 .. w - 1)

\* the Height x Width corner of an h x w board farthest from <<0, 0>>
Played(h, w) ==
    ((h - Height .. h - 1) \X (w - Width .. w - 1)) \cap BoardCells(h, w)

\* the 3x3 window of the two nested range(c - 1, c + 2) loops
Window(cell) ==
    (cell[1] - 1 .. cell[1] + 1) \X (cell[2] - 1 .. cell[2] + 1)

is_mine(b, cell) == cell \in b

nearby_mines(b, h, w, cell) ==
    Cardinality({c \in Window(cell) :
                    /\ c # cell
                    /\ 0 <= c[1] /\ c[1] < h
                    /\ 0 <= c[2] /\ c[2] < w
                    /\ c \in b})

\* ------------------------------------------------------------------------
\* Sentence
\* ------------------------------------------------------------------------
Sentence(cells, count) == [cells |-> cells, count |-> count]

\* Sentence.__eq__ is equality of cells and of count: record equality.
Sentence_eq(s, t) == s.cells = t.cells /\ s.count = t.count

Sentence_mark_mine(s, cell) ==
    IF cell \in s.cells
    THEN Sentence(s.cells \ {cell}, s.count - 1)
    ELSE s

Sentence_mark_safe(s, cell) ==
    IF cell \in s.cells
    THEN Sentence(s.cells \ {cell}, s.count)
    ELSE s

\* ------------------------------------------------------------------------
\* Python list helpers
\* ------------------------------------------------------------------------
Range(seq) == {seq[i] : i \in 1 .. Len(seq)}

\* `x in list`
InList(x, seq) == \E i \in 1 .. Len(seq) : Sentence_eq(seq[i], x)

\* list.remove(x): drops the first element equal to x
FirstIndex(x, seq) ==
    CHOOSE i \in 1 .. Len(seq) :
        /\ Sentence_eq(seq[i], x)
        /\ \A j \in 1 .. i - 1 : ~ Sentence_eq(seq[j], x)

RemoveAt(seq, k) ==
    [i \in 1 .. Len(seq) - 1 |-> IF i < k THEN seq[i] ELSE seq[i + 1]]

ListRemove(seq, x) == RemoveAt(seq, FirstIndex(x, seq))

\* ------------------------------------------------------------------------
\* MinesweeperAI.  The knowledge base is handled as a record
\*   [moves_made, mines, safes, knowledge, seen, ids, visited, removed]
\* whose field seen collects every sentence value that was in the list at
\* some point of the call under way.  The last three fields follow the
\* Sentence objects through the loop of line 203: ids[i] is the position
\* that the object now at knowledge[i] had when the loop started, visited
\* lists the objects the loop body ran on, and removed pairs each object
\* the loop body ran on with the object that knowledge.remove took out.
\* ------------------------------------------------------------------------
\* mark_mine with `self.mines = {cell}` in place of `self.mines.add(cell)`
mark_mine_assign(ai, cell) ==
    LET kn == [i \in 1 .. Len(ai.knowledge) |->
                    Sentence_mark_mine(ai.knowledge[i], cell)]
    IN  [ai EXCEPT !.mines = {cell},
                   !.knowledge = kn,
                   !.seen = @ \cup Range(kn)]

mark_mine(ai, cell) ==
    LET kn == [i \in 1 .. Len(ai.knowledge) |->
                    Sentence_mark_mine(ai.knowledge[i], cell)]
    IN  [ai EXCEPT !.mines = @ \cup {cell},
                   !.knowledge = kn,
                   !.seen = @ \cup Range(kn)]

mark_safe(ai, cell) ==
    LET kn == [i \in 1 .. Len(ai.knowledge) |->
                    Sentence_mark_safe(ai.knowledge[i], cell)]
    IN  [ai EXCEPT !.safes = @ \cup {cell},
                   !.knowledge = kn,
                   !.seen = @ \cup Range(kn)]

\* for mine in all_mines: self.mark_mine(mine)
RECURSIVE mark_all_mines(_, _)
mark_all_mines(ai, cells) ==
    IF cells = {} THEN ai
    ELSE LET c == CHOOSE x \in cells : TRUE
         IN  mark_all_mines(mark_mine(ai, c), cells \ {c})

\* for safe in all_safe: self.mark_safe(safe)
RECURSIVE mark_all_safe(_, _)
mark_all_safe(ai, cells) ==
    IF cells = {} THEN ai
    ELSE LET c == CHOOSE x \in cells : TRUE
         IN  mark_all_safe(mark_safe(ai, c), cells \ {c})

\* The loops above run over a Python set, in an order the program does not
\* fix.  The final lists agree for every order; the sentence values passed
\* through on the way do not.  These are the values of every order.
RECURSIVE PruneMines(_, _)
PruneMines(s, cells) ==
    IF cells = {} THEN s
    ELSE LET c == CHOOSE x \in cells : TRUE
         IN  PruneMines(Sentence_mark_mine(s, c), cells \ {c})

RECURSIVE PruneSafe(_, _)
PruneSafe(s, cells) ==
    IF cells = {} THEN s
    ELSE LET c == CHOOSE x \in cells : TRUE
         IN  PruneSafe(Sentence_mark_safe(s, c), cells \ {c})

PassedMines(kn, cells) ==
    UNION {{PruneMines(s, T) : T \in SUBSET (s.cells \cap cells)} :
                s \in Range(kn)}

PassedSafe(kn, cells) ==
    UNION {{PruneSafe(s, T) : T \in SUBSET (s.cells \cap cells)} :
                s \in Range(kn)}

\* the neighbour_move set of add_knowledge
Neighbours(cell, moved) ==
    {c \in Window(cell) :
        /\ 0 <= c[1] /\ c[1] < BoardLimit
        /\ 0 <= c[2] /\ c[2] < BoardLimit
        /\ c \notin moved}

\* `for sentence in self.knowledge:` with removal from the list under
\* iteration.  i is the iterator's position (1-based); it moves on by one
\* after every element whether or not the list has shrunk.
RECURSIVE Sweep(_, _)
Sweep(ai, i) ==
    IF i > Len(ai.knowledge) THEN ai
    ELSE
        LET s == ai.knowledge[i]
        IN  IF Cardinality(s.cells) = s.count
            THEN LET m == mark_all_mines(ai, s.cells)
                     k == FirstIndex(m.knowledge[i], m.knowledge)
                 IN  Sweep([m EXCEPT
                              !.knowledge = ListRemove(@, m.knowledge[i]),
                              !.seen = @ \cup PassedMines(ai.knowledge, s.cells),
                              !.ids = RemoveAt(@, k),
                              !.visited = Append(@, ai.ids[i]),
                              !.removed = Append(@, <<ai.ids[i], ai.ids[k]>>)],
                           i + 1)
            ELSE IF s.count = 0
            THEN LET m == mark_all_safe(ai, s.cells)
                     k == FirstIndex(m.knowledge[i], m.knowledge)
                 IN  Sweep([m EXCEPT
                              !.knowledge = ListRemove(@, m.knowledge[i]),
                              !.seen = @ \cup PassedSafe(ai.knowledge, s.cells),
                              !.ids = RemoveAt(@, k),
                              !.visited = Append(@, ai.ids[i]),
                              !.removed = Append(@, <<ai.ids[i], ai.ids[k]>>)],
                           i + 1)
            ELSE Sweep([ai EXCEPT !.visited = Append(@, ai.ids[i])], i + 1)

\* Lines 226-230: the sentence derived from sentence2.cells being a subset
\* of sentence1.cells, with the cells already moved on taken out.
Derived(sentence1, sentence2, moved) ==
    Sentence((sentence1.cells \ sentence2.cells) \ moved,
             sentence1.count - sentence2.count)

\* The two nested loops over static_knowledge_base.  p numbers the pairs
\* (sentence1, sentence2) in the order the loops visit them.
RECURSIVE Resolve(_, _, _, _)
Resolve(static, moved, kn, p) ==
    LET n == Len(static)
    IN  IF p >= n * n THEN kn
        ELSE
            LET sentence1 == static[(p \div n) + 1]
                sentence2 == static[(p % n) + 1]
                new == Derived(sentence1, sentence2, moved)
            IN  IF /\ sentence1.cells # {}
                   /\ sentence2.cells # {}
                   /\ ~ Sentence_eq(sentence2, sentence1)
                   /\ sentence2.cells \subseteq sentence1.cells
                   /\ ~ InList(new, kn)
                THEN Resolve(static, moved, Append(kn, new), p + 1)
                ELSE Resolve(static, moved, kn, p + 1)

\* add_knowledge up to the test of line 199
Observe(ai, cell) ==
    mark_safe([ai EXCEPT !.moves_made = @ \cup {cell}], cell)

\* the sentence built from the observation
Built(ai, cell, count) ==
    Sentence(Neighbours(cell, ai.moves_made \cup {cell}), count)

\* line 199: is the sentence new to the knowledge base
IsNew(ai, cell, count) ==
    ~ InList(Built(ai, cell, count), Observe(ai, cell).knowledge)

\* the knowledge base when the loop of line 203 starts
AtSweep(ai, cell, count) ==
    LET a == Observe(ai, cell)
        kn == Append(a.knowledge, Built(ai, cell, count))
    IN  [a EXCEPT !.knowledge = kn, !.seen = @ \cup Range(kn),
                  !.ids = [i \in 1 .. Len(kn) |-> i]]

\* Everything from line 203 on is inside the `if` of line 199.
add_knowledge(ai, cell, count) ==
    IF IsNew(ai, cell, count)
    THEN LET a == Sweep(AtSweep(ai, cell, count), 1)
             kn == Resolve(a.knowledge, a.moves_made, a.knowledge, 0)
         IN  [a EXCEPT !.knowledge = kn, !.seen = @ \cup Range(kn)]
    ELSE Observe(ai, cell)

\* make_safe_move: the cells the loop over the set self.safes can return
SafeMoves(ai) == ai.safes \ ai.moves_made

\* make_random_move: the first cell in row-major order over range(8) x range(8)
RandomMoves(ai) ==
    {c \in (0 .. BoardLimit - 1) \X (0 .. BoardLimit - 1) :
        c \notin ai.moves_made /\ c \notin ai.mines}

make_random_move(ai) ==
    LET free == RandomMoves(ai)
    IN  IF free = {} THEN None
        ELSE CHOOSE c \in free :
                \A d \in free :
                    c[1] < d[1] \/ (c[1] = d[1] /\ c[2] <= d[2])

\* ------------------------------------------------------------------------
\* State machine
\* ------------------------------------------------------------------------
\* the knowledge base as a record, with an empty history
AI == [moves_made |-> moves_made, mines |-> mines, safes |-> safes,
       knowledge |-> knowledge, seen |-> Range(knowledge),
       ids |-> <<>>, visited |-> <<>>, removed |-> <<>>]

NoCall == [op |-> "init", cell |-> None, count |-> 0, ret |-> None,
           built |-> Sentence({}, 0), before |-> {},
           swept |-> FALSE, atSweep |-> <<>>, seen |-> {},
           visited |-> <<>>, removed |-> <<>>]

Install(a) ==
    /\ moves_made' = a.moves_made
    /\ mines' = a.mines
    /\ safes' = a.safes
    /\ knowledge' = a.knowledge

\* Minesweeper.__init__ and MinesweeperAI.__init__, both given h and w
Start(h, w) ==
    /\ height = h
    /\ width = w
    /\ board \in {b \in SUBSET Played(h, w) : Cardinality(b) <= MaxMines}
    /\ moves_made = {}
    /\ mines = {}
    /\ safes = {}
    /\ knowledge = <<>>
    /\ calls = 0
    /\ last = NoCall

\* a Height x Width board, played on all of it
Init == Start(Height, Width)

\* add_knowledge(cell, count) with any arguments
Record(cell, count) ==
    LET a == add_knowledge(AI, cell, count)
        new == IsNew(AI, cell, count)
    IN  /\ Install(a)
        /\ calls' = calls + 1
        /\ last' = [op |-> "add_knowledge", cell |-> cell, count |-> count,
                    ret |-> None,
                    built |-> Built(AI, cell, count),
                    before |-> moves_made,
                    swept |-> new,
                    atSweep |-> IF new
                                THEN AtSweep(AI, cell, count).knowledge
                                ELSE <<>>,
                    seen |-> a.seen,
                    visited |-> a.visited,
                    removed |-> a.removed]
        /\ UNCHANGED <<height, width, board>>

\* The game loop reveals a cell that is not a mine and was not revealed
\* before, and reports Minesweeper.nearby_mines(cell).
RecordObservation ==
    /\ calls < MaxObs
    /\ \E cell \in Played(height, width) :
        /\ ~ is_mine(board, cell)
        /\ cell \notin moves_made
        /\ Record(cell, nearby_mines(board, height, width, cell))

Next == RecordObservation

Spec == Init /\ [][Next]_vars

\* The same game on a board with BoardLimit + 1 rows and columns, played in
\* the corner that reaches past row and column BoardLimit - 1.
InitLarge == Start(BoardLimit + 1, BoardLimit + 1)

SpecLarge == InitLarge /\ [][Next]_vars

\* ------------------------------------------------------------------------
\* Arbitrary call sequences: the five operations of the knowledge base
\* called in any order with any arguments, on a board without mines.
\* ------------------------------------------------------------------------
ArgCells == {0} \X (0 .. ArgSpan - 1)

InitCalls == Init /\ board = {}

CallAddKnowledge ==
    \E cell \in ArgCells : \E count \in 0 .. MaxCount : Record(cell, count)

CallMarkMine ==
    \E cell \in ArgCells :
        /\ Install(mark_mine(AI, cell))
        /\ calls' = calls + 1
        /\ last' = [NoCall EXCEPT !.op = "mark_mine", !.cell = cell]
        /\ UNCHANGED <<height, width, board>>

CallMarkSafe ==
    \E cell \in ArgCells :
        /\ Install(mark_safe(AI, cell))
        /\ calls' = calls + 1
        /\ last' = [NoCall EXCEPT !.op = "mark_safe", !.cell = cell]
        /\ UNCHANGED <<height, width, board>>

CallSafeMove ==
    /\ \E r \in IF SafeMoves(AI) = {} THEN {None} ELSE SafeMoves(AI) :
            last' = [NoCall EXCEPT !.op = "make_safe_move", !.ret = r]
    /\ calls' = calls + 1
    /\ UNCHANGED <<height, width, board, moves_made, mines, safes, knowledge>>

CallRandomMove ==
    /\ last' = [NoCall EXCEPT !.op = "make_random_move",
                              !.ret = make_random_move(AI)]
    /\ calls' = calls + 1
    /\ UNCHANGED <<height, width, board, moves_made, mines, safes, knowledge>>

NextCalls ==
    /\ calls < MaxCalls
    /\ \/ CallAddKnowledge
       \/ CallMarkMine
       \/ CallMarkSafe
       \/ CallSafeMove
       \/ CallRandomMove

SpecCalls == InitCalls /\ [][NextCalls]_vars

\* ------------------------------------------------------------------------
\* A truthful game in which the player also asks for moves: between the
\* observations make_safe_move and make_random_move are called at will.
\* ------------------------------------------------------------------------
NextPlay ==
    /\ calls < MaxObs
    /\ \/ RecordObservation
       \/ CallSafeMove
       \/ CallRandomMove

SpecPlay == Init /\ [][NextPlay]_vars

SpecPlayLarge == InitLarge /\ [][NextPlay]_vars

\* ------------------------------------------------------------------------
\* The safe-move driver: a 3 x 3 board with its one mine at <<0, 0>>, a
\* first observation of <<2, 2>> with count 0, and from then on the cell
\* that make_safe_move returns is revealed and its count recorded.
\* ------------------------------------------------------------------------
DriverMine == <<0, 0>>
DriverOpening == <<2, 2>>

InitDriver == Start(3, 3) /\ board = {DriverMine}

DriverFirst ==
    /\ calls = 0
    /\ Record(DriverOpening, 0)

\* Minesweeper.is_mine(cell) reads self.board[i][j]: an IndexError for a
\* cell past the last row or column
RevealFails(cell) == cell \notin BoardCells(height, width)

DriverReveal ==
    /\ calls > 0
    /\ last.op # "stopped"
    /\ \E r \in SafeMoves(AI) :
        /\ ~ RevealFails(r)
        /\ ~ is_mine(board, r)
        /\ Record(r, nearby_mines(board, height, width, r))

\* the run ends when make_safe_move returns None, when the reveal of the
\* returned cell fails, or when the returned cell holds a mine
DriverStop ==
    /\ calls > 0
    /\ last.op # "stopped"
    /\ \E r \in IF SafeMoves(AI) = {} THEN {None} ELSE SafeMoves(AI) :
        /\ (r = None \/ RevealFails(r) \/ is_mine(board, r))
        /\ last' = [NoCall EXCEPT !.op = "stopped", !.ret = r]
    /\ calls' = calls + 1
    /\ UNCHANGED <<height, width, board, moves_made, mines, safes, knowledge>>

NextDriver == DriverFirst \/ DriverReveal \/ DriverStop

SpecDriver == InitDriver /\ [][NextDriver]_vars

\* ------------------------------------------------------------------------
\* Properties
\* ------------------------------------------------------------------------
InRange(s) == 0 <= s.count /\ s.count <= Cardinality(s.cells)

Returned == last.op = "add_knowledge"

\* C1 (soundness): in a truthful game every cell of mines holds a mine of
\* the board and no cell of safes does.
Soundness == mines \subseteq board /\ safes \cap board = {}

\* C2: in a truthful game mines and safes are disjoint.
MinesSafesDisjoint == mines \cap safes = {}

\* C3: in a truthful game every sentence in the list satisfies
\* 0 <= count <= |cells|, at the return of add_knowledge and at every point
\* inside it (after each pruning by mark_mine or mark_safe, after each
\* derived sentence is appended).
CountInRange ==
    \A s \in last.seen \cup Range(knowledge) : InRange(s)

\* C4: over any sequence of add_knowledge, mark_mine, mark_safe,
\* make_safe_move and make_random_move calls, each of mines, safes and
\* moves_made after a call is a superset of its value before the call.
OnlyGrow ==
    [][/\ mines \subseteq mines'
       /\ safes \subseteq safes'
       /\ moves_made \subseteq moves_made']_vars

\* a move was asked for after all three sets had received a cell
OnlyGrowWitness ==
    /\ last.op \in {"make_safe_move", "make_random_move"}
    /\ mines # {} /\ safes # {} /\ moves_made # {}

\* C5 (subset inference): if the list at the start of the inference step
\* holds A and B with B.cells a non-empty proper subset of A.cells and
\* equal counts, then at the return (A.cells - B.cells, 0) has been derived
\* and every cell of A.cells - B.cells is in safes.
SubsetInference ==
    (Returned /\ last.swept) =>
        \A A \in Range(last.atSweep) : \A B \in Range(last.atSweep) :
            (/\ B.cells # {}
             /\ B.cells \subseteq A.cells /\ B.cells # A.cells
             /\ A.count = B.count)
            => /\ Sentence(A.cells \ B.cells, 0) \in last.seen
               /\ (A.cells \ B.cells) \subseteq safes

\* C6 (direct mine entailment): a sentence that is in the list when the
\* sweep starts, with a non-empty cell set as large as its count, has all
\* its cells in mines and is out of the list at the return.
MineEntailment ==
    (Returned /\ last.swept) =>
        \A s \in Range(last.atSweep) :
            (s.cells # {} /\ Cardinality(s.cells) = s.count)
            => (s.cells \subseteq mines /\ ~ InList(s, knowledge))

\* C7 (safe entailment): a sentence that is in the list when the sweep
\* starts, with a non-empty cell set and count 0, has all its cells in
\* safes and is out of the list at the return.
SafeEntailment ==
    (Returned /\ last.swept) =>
        \A s \in Range(last.atSweep) :
            (s.cells # {} /\ s.count = 0)
            => (s.cells \subseteq safes /\ ~ InList(s, knowledge))

\* C8 (fixpoint): at the return of add_knowledge no sentence of the list
\* with a non-empty cell set has count 0 or count |cells|, and no two
\* distinct sentences, one's cells within the other's, derive a sentence
\* that is not in the list.
Fixpoint ==
    Returned =>
        /\ \A s \in Range(knowledge) :
                s.cells # {} =>
                    (s.count # 0 /\ s.count # Cardinality(s.cells))
        /\ \A i \in 1 .. Len(knowledge) : \A j \in 1 .. Len(knowledge) :
                (/\ i # j
                 /\ knowledge[j].cells # {}
                 /\ knowledge[j].cells \subseteq knowledge[i].cells
                 /\ knowledge[j].cells # knowledge[i].cells)
                => InList(Sentence(knowledge[i].cells \ knowledge[j].cells,
                                   knowledge[i].count - knowledge[j].count),
                          knowledge)

\* C9: at the return of add_knowledge no sentence of the list has an empty
\* cell set.
NoEmptySentence ==
    Returned => \A s \in Range(knowledge) : s.cells # {}

\* C10 (deduplication): in a truthful game the list never holds two
\* sentences with the same cells and the same count.
NoDuplicates ==
    \A i \in 1 .. Len(knowledge) : \A j \in 1 .. Len(knowledge) :
        i # j => ~ Sentence_eq(knowledge[i], knowledge[j])

\* C11: make_safe_move returns a cell of safes that is not in moves_made and
\* lies on the board, 0 <= i < height and 0 <= j < width; it returns None
\* exactly when safes - moves_made is empty.
SafeMoveOnBoard ==
    last.op = "make_safe_move" =>
        /\ (last.ret = None) <=> (safes \ moves_made = {})
        /\ last.ret # None =>
            /\ last.ret \in safes
            /\ last.ret \notin moves_made
            /\ last.ret \in BoardCells(height, width)

\* C12: make_random_move returns a cell of the height x width board that is
\* neither in moves_made nor in mines; it returns None exactly when every
\* cell of the board is in moves_made or in mines.
RandomMoveOnBoard ==
    last.op = "make_random_move" =>
        /\ (last.ret = None) <=>
                (BoardCells(height, width) \subseteq moves_made \cup mines)
        /\ last.ret # None =>
            /\ last.ret \in BoardCells(height, width)
            /\ last.ret \notin moves_made
            /\ last.ret \notin mines

\* C13 (no-move termination): in every state where each cell of the board
\* is in moves_made or in mines, make_safe_move and make_random_move both
\* return None.
NoMoveWhenCovered ==
    (BoardCells(height, width) \subseteq moves_made \cup mines) =>
        /\ SafeMoves(AI) = {}
        /\ make_random_move(AI) = None

\* C14: in a truthful game a cell of moves_made is never added to mines, a
\* cell of mines is never added to safes nor returned by make_safe_move or
\* make_random_move, and moves_made and mines are disjoint in every state.
MovedMineExclusive ==
    /\ [](moves_made \cap mines = {})
    /\ [][/\ (moves_made \cap mines') \subseteq mines
          /\ (mines \cap safes') \subseteq safes
          /\ last'.op \in {"make_safe_move", "make_random_move"}
                => last'.ret \notin mines]_vars

\* C15 (end to end): the safe-move driver on the 3 x 3 board with its mine
\* at <<0, 0>> gets <<0, 0>> into mines before its run ends, and once
\* <<0, 0>> is in mines neither make_safe_move nor make_random_move
\* returns it.
DriverFindsMine ==
    /\ last.op = "stopped" => DriverMine \in mines
    /\ DriverMine \in mines =>
        /\ DriverMine \notin SafeMoves(AI)
        /\ make_random_move(AI) # DriverMine

\* C16: when the sentence that add_knowledge builds equals one already in
\* the list, no second copy is appended and the call still sweeps: every
\* sentence that the pruning of the observed cell left with count 0 or
\* count |cells| has its cells in safes or in mines at the return.
DuplicateStillSweeps ==
    [][(last'.op = "add_knowledge"
            /\ InList(last'.built, Observe(AI, last'.cell).knowledge))
        => /\ \A i \in 1 .. Len(knowledge') : \A j \in 1 .. Len(knowledge') :
                (Sentence_eq(knowledge'[i], last'.built)
                    /\ Sentence_eq(knowledge'[j], last'.built)) => i = j
           /\ \A s \in Range(Observe(AI, last'.cell).knowledge) :
                /\ (s.cells # {} /\ Cardinality(s.cells) = s.count)
                        => s.cells \subseteq mines'
                /\ (s.cells # {} /\ s.count = 0)
                        => s.cells \subseteq safes']_vars

\* C17: the loop of line 203 runs its body exactly once on every sentence
\* that is in the list when the loop starts, and each knowledge.remove of
\* the loop takes out the very sentence the body is running on.
SweepVisitsAll ==
    (Returned /\ last.swept) =>
        /\ \A id \in 1 .. Len(last.atSweep) :
                Cardinality({n \in 1 .. Len(last.visited) :
                                last.visited[n] = id}) = 1
        /\ \A n \in 1 .. Len(last.removed) :
                last.removed[n][1] = last.removed[n][2]

\* C18: at the return of add_knowledge no sentence of the list holds a cell
\* of mines or of safes, and the sentence the call built goes into the
\* sweep without any cell that was in mines or in safes when it was built.
NoKnownCellLeft ==
    [][last'.op = "add_knowledge" =>
        /\ \A s \in Range(knowledge') :
                s.cells \cap (mines' \cup safes') = {}
        /\ last'.swept =>
                last'.atSweep[Len(last'.atSweep)].cells
                    \cap (mines \cup safes) = {}]_vars

\* C19: the cells of the sentence that add_knowledge(cell, count) builds
\* are exactly the board positions (i, j), 0 <= i < height and
\* 0 <= j < width, next to cell, other than cell and not in moves_made.
BuiltOnBoard ==
    Returned =>
        last.built.cells =
            {c \in Window(last.cell) \cap BoardCells(height, width) :
                c # last.cell /\ c \notin last.before}

\* C20: in a truthful game every sentence of the list is true of the
\* board: the number of board mines among its cells is its count.
SentencesTrue ==
    \A s \in Range(knowledge) : Cardinality(s.cells \cap board) = s.count

====
